---- MODULE Spec2Model ----
(***************************************************************************)
(* Wire-format codec of the RabbitMQ stream client                         *)
(* (src/rabbitmq/stream/client/__init__.py): the primitive encodings, the  *)
(* sequence reader, the record engine (AutoBytes), the delivery chunk and  *)
(* the frame envelope.                                                     *)
(*                                                                         *)
(* A byte string is a sequence over 0..255.  A Python int is unbounded, so *)
(* an integer value is a sign and a magnitude written in base 256, most    *)
(* significant digit first, without leading zeros (Num); struct.pack and   *)
(* struct.unpack convert between that and the fixed-width two's-complement *)
(* big-endian bytes.  A str is its sequence of code points; str.encode and *)
(* bytes.decode are UTF-8.                                                 *)
(***************************************************************************)
EXTENDS Integers, Sequences, FiniteSets, TLC

Min(a, b) == IF a < b THEN a ELSE b
Max(a, b) == IF a > b THEN a ELSE b

(***************************************************************************)
(* Python values and results.                                              *)
(***************************************************************************)
NoValue == [cls |-> "NoValue"]

\* A call that returned (value, offset).
Ok(v, off) == [ok |-> TRUE, value |-> v, offset |-> off, err |-> ""]

\* A call that raised exception e.
Raise(e) == [ok |-> FALSE, value |-> NoValue, offset |-> 0, err |-> e]

\* struct.error is what struct.unpack raises when the buffer does not hold
\* exactly the bytes its format needs.
StructError == "struct.error"
UnicodeDecodeError == "UnicodeDecodeError"
AttributeError == "AttributeError"
\* The call never returns (a loop whose condition cannot change).
NoReturn == "no return"

(***************************************************************************)
(* Python's slice data[lo:hi]: a negative index counts from the end, and   *)
(* both indices are clamped to the buffer.                                 *)
(***************************************************************************)
SliceIndex(len, i) == IF i < 0 THEN Max(i + len, 0) ELSE Min(i, len)

\* The (1-based) positions of data that data[lo:hi] reads.
SliceRange(len, lo, hi) ==
    (SliceIndex(len, lo) + 1) .. SliceIndex(len, hi)

Slice(data, lo, hi) ==
    LET start == SliceIndex(Len(data), lo)
        stop  == SliceIndex(Len(data), hi)
    IN  IF stop <= start THEN <<>>
        ELSE [i \in 1..(stop - start) |-> data[start + i]]

\* data[lo:]
SliceFrom(data, lo) == Slice(data, lo, Len(data))

(***************************************************************************)
(* Integers.                                                               *)
(***************************************************************************)
Num(neg, mag) == [neg |-> neg, mag |-> mag]

RECURSIVE StripZeros(_)
StripZeros(s) ==
    IF s = <<>> THEN <<>>
    ELSE IF Head(s) = 0 THEN StripZeros(Tail(s)) ELSE s

PadLeft(s, w) ==
    [i \in 1..w |-> IF i <= w - Len(s) THEN 0 ELSE s[i - (w - Len(s))]]

Invert(s) == [i \in 1..Len(s) |-> 255 - s[i]]

\* s + 1 modulo 256^Len(s).
RECURSIVE AddOne(_)
AddOne(s) ==
    IF s = <<>> THEN <<>>
    ELSE LET n == Len(s)
             front == SubSeq(s, 1, n - 1)
         IN  IF s[n] < 255 THEN Append(front, s[n] + 1)
             ELSE Append(AddOne(front), 0)

RECURSIVE NatDigits(_)
NatDigits(n) ==
    IF n = 0 THEN <<>> ELSE Append(NatDigits(n \div 256), n % 256)

\* The Python int n (len(...) of something small).
FromInt(n) == IF n < 0 THEN Num(TRUE, NatDigits(-n)) ELSE Num(FALSE, NatDigits(n))

RECURSIVE DigitsToInt(_, _, _)
DigitsToInt(s, acc, sgn) ==
    IF s = <<>> THEN acc
    ELSE DigitsToInt(Tail(s), acc * 256 + sgn * Head(s), sgn)

\* int(x) of a value of at most 32 bits.
ToInt(v) == DigitsToInt(v.mag, 0, IF v.neg THEN -1 ELSE 1)

IntClasses ==
    {"Int8", "Int16", "Int32", "Int64", "UInt8", "UInt16", "UInt32", "UInt64"}

byte_size(cls) ==
    CASE cls \in {"Int8", "UInt8"}   -> 1
      [] cls \in {"Int16", "UInt16"} -> 2
      [] cls \in {"Int32", "UInt32"} -> 4
      [] cls \in {"Int64", "UInt64"} -> 8

\* format "b", "h", "i", "q" is signed; "B", "H", "I", "Q" is not.
signed(cls) == cls \in {"Int8", "Int16", "Int32", "Int64"}

\* The values struct.pack accepts for the class's format.
InRange(cls, v) ==
    LET w == byte_size(cls)
    IN  /\ Len(v.mag) <= w
        /\ v.mag = StripZeros(v.mag)
        /\ (v.mag = <<>> => ~v.neg)
        /\ IF signed(cls)
           THEN IF v.neg
                THEN AddOne(Invert(PadLeft(v.mag, w)))[1] >= 128
                ELSE PadLeft(v.mag, w)[1] < 128
           ELSE ~v.neg

\* struct.pack(">" + format, value), for a value in range.
struct_pack(cls, v) ==
    LET w == byte_size(cls)
    IN  IF v.neg THEN AddOne(Invert(PadLeft(v.mag, w))) ELSE PadLeft(v.mag, w)

\* struct.unpack(">" + format, data) of exactly byte_size bytes.
struct_unpack(cls, data) ==
    IF signed(cls) /\ data[1] >= 128
    THEN Num(TRUE, StripZeros(AddOne(Invert(data))))
    ELSE Num(FALSE, StripZeros(data))

IntValue(cls, v) == [cls |-> cls, value |-> v]

BaseInt_bytes(x) == struct_pack(x.cls, x.value)

\* A decoder that pads a short buffer instead of failing.
BaseInt_from_bytes_padding(cls, data) ==
    LET d == Slice(data, 0, byte_size(cls))
    IN  Ok(IntValue(cls, struct_unpack(cls, PadLeft(d, byte_size(cls)))), Len(d))

BaseInt_from_bytes(cls, data) ==
    LET offset == byte_size(cls)
        d == Slice(data, 0, offset)
    IN  IF Len(d) # byte_size(cls) THEN Raise(StructError)
        ELSE Ok(IntValue(cls, struct_unpack(cls, d)), Len(d))

(***************************************************************************)
(* str.encode() and bytes.decode(): UTF-8.                                 *)
(***************************************************************************)
utf8_encode_char(c) ==
    IF c < 128 THEN <<c>>
    ELSE IF c < 2048 THEN <<192 + (c \div 64), 128 + (c % 64)>>
    ELSE IF c < 65536
         THEN <<224 + (c \div 4096), 128 + ((c \div 64) % 64), 128 + (c % 64)>>
         ELSE <<240 + (c \div 262144), 128 + ((c \div 4096) % 64),
                128 + ((c \div 64) % 64), 128 + (c % 64)>>

RECURSIVE str_encode(_)
str_encode(chars) ==
    IF chars = <<>> THEN <<>>
    ELSE utf8_encode_char(Head(chars)) \o str_encode(Tail(chars))

\* The number of bytes of the UTF-8 sequence that lead byte b starts; 0 for a
\* byte that starts none.
Utf8SeqLen(b) ==
    IF b < 128 THEN 1
    ELSE IF b \in 194..223 THEN 2
    ELSE IF b \in 224..239 THEN 3
    ELSE IF b \in 240..244 THEN 4
    ELSE 0

RECURSIVE bytes_decode_from(_, _, _)
bytes_decode_from(b, i, acc) ==
    IF i > Len(b) THEN Ok(acc, Len(b))
    ELSE LET lead == b[i]
             n == Utf8SeqLen(lead)
         IN  IF n = 0 \/ i + n - 1 > Len(b) THEN Raise(UnicodeDecodeError)
             ELSE LET lo2 == IF lead = 224 THEN 160
                             ELSE IF lead = 240 THEN 144 ELSE 128
                      hi2 == IF lead = 237 THEN 159
                             ELSE IF lead = 244 THEN 143 ELSE 191
                      cont(j) == b[i + j] - 128
                      cp == CASE n = 1 -> lead
                              [] n = 2 -> (lead - 192) * 64 + cont(1)
                              [] n = 3 -> (lead - 224) * 4096 + cont(1) * 64
                                          + cont(2)
                              [] n = 4 -> (lead - 240) * 262144
                                          + cont(1) * 4096 + cont(2) * 64
                                          + cont(3)
                  IN  IF \A j \in 1..(n - 1) :
                            b[i + j] \in (IF j = 1 THEN lo2..hi2 ELSE 128..191)
                      THEN bytes_decode_from(b, i + n, Append(acc, cp))
                      ELSE Raise(UnicodeDecodeError)

bytes_decode(b) == bytes_decode_from(b, 1, <<>>)

(***************************************************************************)
(* String and Bytes.                                                       *)
(***************************************************************************)
\* String(value) for a str value, and String(None).
StringValue(chars) == [cls |-> "String", isNone |-> FALSE, chars |-> chars]
StringNone == [cls |-> "String", isNone |-> TRUE, chars |-> <<>>]

BytesValue(b) == [cls |-> "Bytes", value |-> b]

String_bytes(x) ==
    IF x.isNone THEN BaseInt_bytes(IntValue("Int16", FromInt(-1)))
    ELSE LET e == str_encode(x.chars)
         IN  BaseInt_bytes(IntValue("Int16", FromInt(Len(e)))) \o e

String_from_bytes(data) ==
    LET r == BaseInt_from_bytes("Int16", data)
    IN  IF ~r.ok THEN r
        ELSE LET length == ToInt(r.value.value)
                 offset == r.offset
                 \* "c" * int(length) is empty for a negative length.
                 fmt == Max(length, 0)
                 s == Slice(data, offset, offset + length)
                 dec == bytes_decode(s)
             IN  IF Len(s) # fmt THEN Raise(StructError)
                 ELSE IF ~dec.ok THEN dec
                 ELSE Ok(StringValue(dec.value), offset + Len(s))

Bytes_bytes(x) ==
    BaseInt_bytes(IntValue("Int32", FromInt(Len(x.value)))) \o x.value

(***************************************************************************)
(* Readers and record schemas.  A reader is a class (its from_bytes        *)
(* classmethod) or an ArrayBytesReader instance.                           *)
(***************************************************************************)
\* The class attribute `length` of ArrayBytesReader: an InitVar with a
\* default, which the generated __init__ accepts and drops (there is no
\* __post_init__), so that a new instance reads 0 until `length` is assigned.
ArrayBytesReader_length == 0

TypeReader(cls) ==
    [array |-> FALSE, type |-> cls, length_prefix |-> FALSE, length |-> 0]

\* ArrayBytesReader(type, length_prefix, length)
ArrayBytesReader(type, length_prefix, length) ==
    [array |-> TRUE, type |-> type, length_prefix |-> length_prefix,
     length |-> ArrayBytesReader_length]

ArrayBytesReader_copy(self) ==
    ArrayBytesReader(self.type, self.length_prefix, self.length)

\* name: type
F(name, type) ==
    [name |-> name, type |-> type, has_reader |-> FALSE,
     reader |-> TypeReader(type)]

\* name: Array[type] = field(metadata={"reader": ArrayBytesReader(type, lp)})
FA(name, type, lp) ==
    [name |-> name, type |-> "Array", has_reader |-> TRUE,
     reader |-> ArrayBytesReader(type, lp, 0)]

RecordClasses ==
    {"DeclarePublisherRequest", "PublishedMessage", "Publish",
     "PublishConfirm", "Message", "OsirisChunk", "Deliver", "StreamMetadata",
     "PeerProperty", "PeerPropertiesRequest", "SaslHandshakeResponse",
     "SaslAuthenticateRequest", "SaslAuthenticateResponse", "OpenRequest",
     "Hearbeat"}

\* dataclasses.fields(cls)
fields(cls) ==
    CASE cls = "DeclarePublisherRequest" ->
            <<F("key", "UInt16"), F("version", "UInt16"),
              F("correlation_id", "UInt32"), F("publisher_id", "UInt8"),
              FA("publisher_references", "String", TRUE),
              F("stream", "String")>>
      [] cls = "PublishedMessage" ->
            <<F("publishing_id", "UInt64"), F("message", "Bytes")>>
      [] cls = "Publish" ->
            <<F("key", "UInt16"), F("version", "UInt16"),
              F("publisher_id", "UInt8"),
              FA("published_messages", "PublishedMessage", TRUE)>>
      [] cls = "PublishConfirm" ->
            <<F("key", "UInt16"), F("version", "UInt16"),
              F("publisher_id", "UInt8"),
              FA("publishing_ids", "UInt64", TRUE)>>
      [] cls = "Message" -> <<>>
      [] cls = "OsirisChunk" ->
            <<F("magic_version", "Int8"), F("num_entries", "UInt16"),
              F("num_records", "UInt32"), F("epoch", "UInt64"),
              F("chunk_first_offset", "UInt64"), F("chunk_crc", "Int32"),
              F("data_length", "UInt32"), FA("messages", "Message", FALSE)>>
      [] cls = "Deliver" ->
            <<F("key", "UInt16"), F("version", "UInt32"),
              F("subscription_id", "UInt8"),
              F("osiris_chunk", "OsirisChunk")>>
      [] cls = "StreamMetadata" ->
            <<F("stream_name", "String"), F("response_code", "UInt16"),
              F("leader_reference", "UInt16"),
              FA("replicas_references", "UInt16", TRUE)>>
      [] cls = "PeerProperty" -> <<F("key", "String"), F("value", "String")>>
      [] cls = "PeerPropertiesRequest" ->
            <<F("key", "UInt16"), F("version", "UInt16"),
              F("correlation_id", "UInt32"),
              FA("peer_properties", "PeerProperty", TRUE)>>
      [] cls = "SaslHandshakeResponse" ->
            <<F("key", "UInt16"), F("version", "UInt16"),
              F("correlation_id", "UInt16"), F("response_code", "UInt16"),
              FA("mechanisms", "String", TRUE)>>
      [] cls = "SaslAuthenticateRequest" ->
            <<F("key", "UInt16"), F("version", "UInt16"),
              F("correlation_id", "UInt32"), F("mechanism", "String"),
              F("sasl_opaque_data", "Bytes")>>
      [] cls = "SaslAuthenticateResponse" ->
            <<F("key", "UInt16"), F("version", "UInt16"),
              F("correlation_id", "UInt32"), F("response_code", "UInt16"),
              F("sasl_opaque_data", "Bytes")>>
      [] cls = "OpenRequest" ->
            <<F("key", "UInt16"), F("version", "UInt16"),
              F("correlation_id", "UInt32"), F("virtual_host", "String")>>
      [] cls = "Hearbeat" -> <<F("key", "UInt16"), F("version", "UInt16")>>
      [] cls = "Frame" -> <<F("value", "T")>>

ArrayValue(items) == [cls |-> "Array", items |-> items]
RecordValue(cls, items) == [cls |-> cls, fields |-> items]

\* The position of the field called name in fields(cls).
FieldIndex(cls, name) ==
    CHOOSE k \in 1..Len(fields(cls)) : fields(cls)[k].name = name

(***************************************************************************)
(* Encoding: bytes(x).                                                     *)
(***************************************************************************)
RECURSIVE bytes(_)

RECURSIVE ConcatBytes(_)
ConcatBytes(items) ==
    IF items = <<>> THEN <<>>
    ELSE bytes(Head(items)) \o ConcatBytes(Tail(items))

\* An encoder that writes the elements only.
Array_bytes_bare(x) == ConcatBytes(x.items)

Array_bytes(x) ==
    BaseInt_bytes(IntValue("Int32", FromInt(Len(x.items))))
        \o ConcatBytes(x.items)

AutoBytes_bytes(x) == ConcatBytes(x.fields)

Frame_bytes(x) ==
    LET data == AutoBytes_bytes(x)
        size == IntValue("UInt32", FromInt(Len(data)))
    IN  BaseInt_bytes(size) \o data

bytes(x) ==
    CASE x.cls \in IntClasses -> BaseInt_bytes(x)
      [] x.cls = "String" -> String_bytes(x)
      [] x.cls = "Bytes" -> Bytes_bytes(x)
      [] x.cls = "Array" -> Array_bytes(x)
      [] x.cls = "Frame" -> Frame_bytes(x)
      [] OTHER -> AutoBytes_bytes(x)

(***************************************************************************)
(* Decoding: cls.from_bytes(data) and reader.from_bytes(data).             *)
(***************************************************************************)
RECURSIVE from_bytes(_, _)
RECURSIVE reader_from_bytes(_, _)

\* for _ in range(length): the iterations left are n.  The body, given what
\* self.type.from_bytes(data[offset:]) did (r), appends the item and advances
\* the offset.
RECURSIVE ArrayBytesReader_for(_, _, _, _, _)
ArrayBytesReader_for_body(type, data, offset, n, items, r) ==
    IF ~r.ok THEN r
    ELSE ArrayBytesReader_for(type, data, offset + r.offset, n - 1,
                              Append(items, r.value))

ArrayBytesReader_for(type, data, offset, n, items) ==
    IF n <= 0 THEN Ok(ArrayValue(items), offset)
    ELSE ArrayBytesReader_for_body(type, data, offset, n, items,
                                   from_bytes(type, SliceFrom(data, offset)))

\* while offset != len(data): an element that consumes nothing leaves the
\* condition as it was, and the loop goes on for ever.
RECURSIVE ArrayBytesReader_while(_, _, _, _)
ArrayBytesReader_while_body(type, data, offset, items, r) ==
    IF ~r.ok THEN r
    ELSE IF r.offset = 0 THEN Raise(NoReturn)
    ELSE ArrayBytesReader_while(type, data, offset + r.offset,
                                Append(items, r.value))

ArrayBytesReader_while(type, data, offset, items) ==
    IF offset = Len(data) THEN Ok(ArrayValue(items), offset)
    ELSE ArrayBytesReader_while_body(type, data, offset, items,
                                     from_bytes(type, SliceFrom(data, offset)))

\* length, offset = Int32.from_bytes(data), and the loop over range(length).
ArrayBytesReader_prefixed(self, data, r) ==
    IF ~r.ok THEN r
    ELSE ArrayBytesReader_for(self.type, data, r.offset, ToInt(r.value.value),
                              <<>>)

ArrayBytesReader_from_bytes(self, data) ==
    IF self.length_prefix \/ self.length # 0
    THEN IF self.length_prefix
         THEN ArrayBytesReader_prefixed(self, data,
                                        BaseInt_from_bytes("Int32", data))
         ELSE ArrayBytesReader_for(self.type, data, 0, self.length, <<>>)
    ELSE ArrayBytesReader_while(self.type, data, 0, <<>>)

reader_from_bytes(reader, data) ==
    IF reader.array THEN ArrayBytesReader_from_bytes(reader, data)
    ELSE from_bytes(reader.type, data)

\* The reader AutoBytes.get_field_readers yields for field k.
AutoBytes_get_field_readers(cls, k) ==
    LET field == fields(cls)[k]
    IN  IF field.has_reader THEN field.reader ELSE TypeReader(field.type)

\* Deliver.OsirisChunk.get_field_readers taking the count from num_records.
OsirisChunk_get_field_readers_records(k, items) ==
    LET reader == AutoBytes_get_field_readers("OsirisChunk", k)
    IN  IF fields("OsirisChunk")[k].name = "messages"
        THEN [ArrayBytesReader_copy(reader)
                 EXCEPT !.length = ToInt(items[3].value)]
        ELSE reader

\* Deliver.OsirisChunk.get_field_readers: the reader it yields for field k,
\* given the items decoded so far (items[1] of the code is items[2] here).
OsirisChunk_get_field_readers(k, items) ==
    LET reader == AutoBytes_get_field_readers("OsirisChunk", k)
    IN  IF fields("OsirisChunk")[k].name = "messages"
        THEN [ArrayBytesReader_copy(reader)
                 EXCEPT !.length = ToInt(items[2].value)]
        ELSE reader

get_field_readers(cls, k, items) ==
    IF cls = "OsirisChunk" THEN OsirisChunk_get_field_readers(k, items)
    ELSE AutoBytes_get_field_readers(cls, k)

\* The loop of AutoBytes.from_bytes, at field k.  The body, given what
\* reader.from_bytes(data[offset:]) did (r), appends the item and advances
\* the offset.
RECURSIVE AutoBytes_from_bytes_loop(_, _, _, _, _)
AutoBytes_from_bytes_body(cls, data, k, offset, items, r) ==
    IF ~r.ok THEN r
    ELSE AutoBytes_from_bytes_loop(cls, data, k + 1, offset + r.offset,
                                   Append(items, r.value))

AutoBytes_from_bytes_loop(cls, data, k, offset, items) ==
    IF k > Len(fields(cls)) THEN Ok(RecordValue(cls, items), offset)
    ELSE AutoBytes_from_bytes_body(
             cls, data, k, offset, items,
             reader_from_bytes(get_field_readers(cls, k, items),
                               SliceFrom(data, offset)))

AutoBytes_from_bytes(cls, data) ==
    AutoBytes_from_bytes_loop(cls, data, 1, 0, <<>>)

\* Bytes defines no from_bytes: looking it up raises AttributeError.
Bytes_from_bytes(data) == Raise(AttributeError)

from_bytes(cls, data) ==
    CASE cls \in IntClasses -> BaseInt_from_bytes(cls, data)
      [] cls = "String" -> String_from_bytes(data)
      [] cls = "Bytes" -> Bytes_from_bytes(data)
      [] OTHER -> AutoBytes_from_bytes(cls, data)

(***************************************************************************)
(* Bounds and the inputs drawn within them.                                *)
(***************************************************************************)
\* Longest list of a generated record, and largest count of a chunk header.
MaxLen == 2
\* Longest buffer handed to an integer's from_bytes.
MaxIntData == 8
\* Longest buffer handed to String.from_bytes.
MaxStringData == 5
\* Longest buffer handed to a sequence reader, and longest tail of a record.
MaxTail == 7
\* Items of a list beyond this many are not told apart.
MaxItems == 3

\* All byte strings over alphabet of length at most n.
ByteStrings(alphabet, n) ==
    UNION {[1..m -> alphabet] : m \in 0..n}

ByteVals == {0, 1, 255}
StringByteVals == {0, 1, 104, 253, 255}

\* 0, 1, 255, 256, 2^63 and 2^64 - 1.
UInt64Nums ==
    {FromInt(0), FromInt(1), FromInt(255), FromInt(256),
     Num(FALSE, <<128, 0, 0, 0, 0, 0, 0, 0>>),
     Num(FALSE, <<255, 255, 255, 255, 255, 255, 255, 255>>)}
UInt16Nums == {FromInt(0), FromInt(1), FromInt(65535)}
UInt8Nums == {FromInt(0), FromInt(1), FromInt(255)}

Ints(cls, nums) == {IntValue(cls, v) : v \in {n \in nums : InRange(cls, n)}}

\* Lists over elems of length at most n.
Lists(elems, n) == UNION {[1..m -> elems] : m \in 0..n}

\* None, "", "hi", "e-acute", the euro sign and an emoji (1 to 4 byte forms).
Strings ==
    {StringNone, StringValue(<<>>), StringValue(<<104, 105>>),
     StringValue(<<233>>), StringValue(<<8364>>), StringValue(<<128512>>)}

Payloads == {BytesValue(b) : b \in ByteStrings({0, 255}, MaxLen)}

U(cls, n) == IntValue(cls, FromInt(n))

PublishConfirms ==
    {RecordValue("PublishConfirm", <<key, version, publisher_id, ArrayValue(ids)>>) :
        key \in Ints("UInt16", UInt16Nums),
        version \in Ints("UInt16", {FromInt(1)}),
        publisher_id \in Ints("UInt8", UInt8Nums),
        ids \in Lists(Ints("UInt64", UInt64Nums), MaxLen)}

PublishedMessages ==
    {RecordValue("PublishedMessage", <<id, m>>) :
        id \in Ints("UInt64", UInt64Nums), m \in Payloads}

Publishes ==
    {RecordValue("Publish", <<U("UInt16", 2), U("UInt16", 1), U("UInt8", 1),
                              ArrayValue(ms)>>) :
        ms \in Lists({RecordValue("PublishedMessage",
                                  <<U("UInt64", 1), BytesValue(<<255>>)>>)},
                     MaxLen)}

SaslAuthenticateRequests ==
    {RecordValue("SaslAuthenticateRequest",
                 <<U("UInt16", 19), U("UInt16", 1), U("UInt32", 7), s, m>>) :
        s \in Strings, m \in Payloads}

SaslAuthenticateResponses ==
    {RecordValue("SaslAuthenticateResponse",
                 <<U("UInt16", 19), U("UInt16", 1), U("UInt32", 7),
                   U("UInt16", 1), m>>) : m \in Payloads}

PeerProperties ==
    {RecordValue("PeerProperty", <<a, b>>) : a \in Strings, b \in Strings}

PeerPropertiesRequests ==
    {RecordValue("PeerPropertiesRequest",
                 <<U("UInt16", 17), U("UInt16", 1), U("UInt32", 100),
                   ArrayValue(ps)>>) :
        ps \in Lists({RecordValue("PeerProperty", <<a, StringValue(<<104>>)>>) :
                         a \in {StringValue(<<>>), StringValue(<<104, 105>>)}},
                     MaxLen)}

OpenRequests ==
    {RecordValue("OpenRequest",
                 <<U("UInt16", 21), U("UInt16", 1), U("UInt32", c), s>>) :
        c \in {0, 65536}, s \in Strings}

StreamMetadatas ==
    {RecordValue("StreamMetadata", <<s, U("UInt16", 1), U("UInt16", 0),
                                     ArrayValue(rs)>>) :
        s \in {StringValue(<<>>), StringValue(<<104, 105>>)},
        rs \in Lists(Ints("UInt16", UInt16Nums), MaxLen)}

Hearbeats ==
    {RecordValue("Hearbeat", <<U("UInt16", 23), v>>) :
        v \in Ints("UInt16", UInt16Nums)}

MessageValue == RecordValue("Message", <<>>)

\* The seven header fields of a chunk with the given counts.
ChunkHeader(num_entries, num_records) ==
    <<U("Int8", 0), U("UInt16", num_entries), U("UInt32", num_records),
      U("UInt64", 0), U("UInt64", 1), IntValue("Int32", FromInt(-1)),
      U("UInt32", 0)>>

OsirisChunks ==
    {RecordValue("OsirisChunk",
                 ChunkHeader(e, r) \o <<ArrayValue([i \in 1..m |-> MessageValue])>>) :
        e \in 0..MaxLen, r \in 0..MaxLen, m \in 0..MaxLen}

Delivers ==
    {RecordValue("Deliver", <<U("UInt16", 8), U("UInt32", 1), U("UInt8", 0), c>>) :
        c \in OsirisChunks}

\* The record values that are encoded.
Records ==
    PublishConfirms \cup PublishedMessages \cup Publishes
        \cup SaslAuthenticateRequests \cup SaslAuthenticateResponses
        \cup PeerProperties \cup PeerPropertiesRequests \cup OpenRequests
        \cup StreamMetadatas \cup Hearbeats \cup OsirisChunks \cup Delivers

\* The values whose encoding is decoded again.
Values ==
    Records \cup Strings \cup Payloads \cup Ints("UInt64", UInt64Nums)
        \cup Ints("Int16", {FromInt(-1), FromInt(0), FromInt(-32768)})

FrameValue(r) == [cls |-> "Frame", fields |-> <<r>>]

\* The classes that buffers are decoded as, each with the bytes of its
\* fields before the sequence and the reader of the sequence.
DecodedClasses == {"PublishConfirm", "StreamMetadata", "SaslHandshakeResponse"}

RecordHead(cls) ==
    CASE cls = "PublishConfirm" -> <<0, 1, 0, 1, 1>>
      [] cls = "StreamMetadata" -> <<0, 1, 104, 0, 1, 0, 0>>
      [] cls = "SaslHandshakeResponse" -> <<0, 18, 0, 1, 0, 7, 0, 1>>

\* The buffers a record class is decoded from: the head cut anywhere, and the
\* whole head followed by any tail.
RecordBuffers(cls) ==
    {Slice(RecordHead(cls), 0, n) : n \in 0..Len(RecordHead(cls))}
        \cup {RecordHead(cls) \o t : t \in ByteStrings(ByteVals, MaxTail)}

\* The number of bytes of a chunk's seven header fields (1+2+4+8+8+4+4).
HeaderLen == Len(ConcatBytes(ChunkHeader(0, 0)))

\* The buffers a chunk is decoded from: a header cut anywhere, and a whole
\* header followed by nothing, by one byte or by the count the encoder writes.
ChunkTails(e) == {<<>>, <<0>>, <<0, 0, 0, e>>}

ChunkBuffers ==
    UNION {{ConcatBytes(ChunkHeader(e, r)) \o t : t \in ChunkTails(e)} :
              e \in 0..MaxLen, r \in 0..MaxLen}
        \cup {Slice(ConcatBytes(ChunkHeader(1, 1)), 0, n) :
                 n \in 0..(HeaderLen - 1)}

(***************************************************************************)
(* The codec as a state machine: each action applies one operation of the  *)
(* codec to an input and records what it returned.                         *)
(*   op    the operation applied last                                      *)
(*   cls   the class whose from_bytes ran                                  *)
(*   x     the value encoded (NoValue for a decode of a given buffer)      *)
(*   data  the bytes encoded or handed to the decoder                      *)
(*   res   what from_bytes returned or raised                              *)
(*   read  the positions of data that BaseInt.from_bytes read              *)
(* The codec keeps nothing between calls: every call starts from the      *)
(* initial state, and the state it leads to is that call's outcome.        *)
(*                                                                         *)
(* Concurrent chunk decodes (below) share one object, the ArrayBytesReader *)
(* in the metadata of the messages field:                                  *)
(*   heap  the ArrayBytesReader objects, by reference: "schema" is the one *)
(*         in the field's metadata, and each thread can allocate one       *)
(*   th    each thread's position in Deliver.OsirisChunk.from_bytes and    *)
(*         its local variables                                             *)
(***************************************************************************)
VARIABLES op, cls, x, data, res, read, heap, th

codecVars == <<op, cls, x, data, res, read>>
threadVars == <<heap, th>>
vars == <<op, cls, x, data, res, read, heap, th>>

CodecInit ==
    /\ op = "none"
    /\ cls = "None"
    /\ x = NoValue
    /\ data = <<>>
    /\ res = Raise("")
    /\ read = {}

\* command_y, offset = cls.from_bytes(bytes(command_x))
RoundTrip(v) ==
    /\ op = "none"
    /\ op' = "roundtrip"
    /\ cls' = v.cls
    /\ x' = v
    /\ data' = bytes(v)
    /\ res' = from_bytes(v.cls, bytes(v))
    /\ read' = {}
    /\ UNCHANGED threadVars

\* bytes(Frame(r)), and r's decoder on the bytes after the 4-byte prefix.
EncodeFrame(r) ==
    /\ op = "none"
    /\ op' = "frame"
    /\ cls' = r.cls
    /\ x' = r
    /\ data' = bytes(FrameValue(r))
    /\ res' = from_bytes(r.cls, SliceFrom(bytes(FrameValue(r)), 4))
    /\ read' = {}
    /\ UNCHANGED threadVars

\* c.from_bytes(d) for an integer class c.
DecodeInt(c, d) ==
    /\ op = "none"
    /\ op' = "int"
    /\ cls' = c
    /\ x' = NoValue
    /\ data' = d
    /\ res' = BaseInt_from_bytes(c, d)
    /\ read' = SliceRange(Len(d), 0, byte_size(c))
    /\ UNCHANGED threadVars

\* String.from_bytes(d)
DecodeString(d) ==
    /\ op = "none"
    /\ op' = "string"
    /\ cls' = "String"
    /\ x' = NoValue
    /\ data' = d
    /\ res' = String_from_bytes(d)
    /\ read' = {}
    /\ UNCHANGED threadVars

\* c.from_bytes(d) for a record class c with a self-prefixed sequence.
DecodeRecord(c, d) ==
    /\ op = "none"
    /\ op' = "record"
    /\ cls' = c
    /\ x' = NoValue
    /\ data' = d
    /\ res' = from_bytes(c, d)
    /\ read' = {}
    /\ UNCHANGED threadVars

\* Deliver.OsirisChunk.from_bytes(d)
DecodeChunk(d) ==
    /\ op = "none"
    /\ op' = "chunk"
    /\ cls' = "OsirisChunk"
    /\ x' = NoValue
    /\ data' = d
    /\ res' = from_bytes("OsirisChunk", d)
    /\ read' = {}
    /\ UNCHANGED threadVars

CodecNext ==
    \/ op = "none" /\ \E v \in Values : RoundTrip(v)
    \/ op = "none" /\ \E r \in Records : EncodeFrame(r)
    \/ op = "none" /\ \E c \in IntClasses :
          \E d \in ByteStrings(ByteVals, MaxIntData) : DecodeInt(c, d)
    \/ op = "none" /\ \E d \in ByteStrings(StringByteVals, MaxStringData) :
          DecodeString(d)
    \/ op = "none" /\ \E c \in DecodedClasses :
          \E d \in RecordBuffers(c) : DecodeRecord(c, d)
    \/ op = "none" /\ \E d \in ChunkBuffers : DecodeChunk(d)


(***************************************************************************)
(* Deliver.OsirisChunk.from_bytes, statement by statement, in two threads. *)
(***************************************************************************)
Threads == {"t1", "t2"}

\* No object.
NoReader == TypeReader("None")

\* A copy() that hands back the reader it was called on.
reader_copy_alias(self, new) == self

\* The reader that self.copy() returns: the new object, not self.
reader_copy(self, new) == new

\* items.append(item), items beyond MaxItems not being told apart.
ListAppend(items, item) ==
    IF Len(items) < MaxItems THEN Append(items, item) ELSE items

Idle ==
    [pc |-> "idle", data |-> <<>>, k |-> 1, items |-> <<>>, offset |-> 0,
     reader |-> "schema", adata |-> <<>>, length |-> 0, aoffset |-> 0,
     aitems |-> <<>>, i |-> 0, err |-> ""]

\* The buffers the threads decode.
ThreadBuffers ==
    UNION {{ConcatBytes(ChunkHeader(e, r)) \o t : t \in {<<>>, <<0>>}} :
              e \in 0..MaxLen, r \in {0, MaxLen}}
        \cup {Slice(ConcatBytes(ChunkHeader(1, 1)), 0, HeaderLen - 1)}

ThreadInit ==
    /\ heap = [o \in {"schema"} \cup Threads |->
                  IF o = "schema"
                  THEN fields("OsirisChunk")[FieldIndex("OsirisChunk", "messages")].reader
                  ELSE NoReader]
    /\ th = [t \in Threads |-> Idle]

ChunkFields == fields("OsirisChunk")

\* Deliver.OsirisChunk.from_bytes(d) is called: offset = 0, items = [].
Call(t, d) ==
    /\ th[t].pc = "idle"
    /\ th' = [th EXCEPT ![t] = [Idle EXCEPT !.pc = "field", !.data = d]]
    /\ UNCHANGED <<heap, codecVars>>

\* The locals s of a thread after AutoBytes.from_bytes has read a field: r is
\* what reader.from_bytes(data[offset:]) did.
AfterField(s, r) ==
    IF r.ok
    THEN [s EXCEPT !.items = Append(@, r.value),
                   !.offset = @ + r.offset,
                   !.k = @ + 1]
    ELSE [s EXCEPT !.pc = "raised", !.err = r.err]

\* One turn of the loop of AutoBytes.from_bytes for a field before messages:
\* get_field_readers yields its reader unchanged.
ReadField(t) ==
    /\ th[t].pc = "field"
    /\ th[t].k <= Len(ChunkFields)
    /\ ChunkFields[th[t].k].name # "messages"
    /\ th' = [th EXCEPT ![t] =
                AfterField(th[t],
                           reader_from_bytes(
                               AutoBytes_get_field_readers("OsirisChunk", th[t].k),
                               SliceFrom(th[t].data, th[t].offset)))]
    /\ UNCHANGED <<heap, codecVars>>

\* get_field_readers at messages: reader = reader.copy()
CopyReader(t) ==
    /\ th[t].pc = "field"
    /\ th[t].k <= Len(ChunkFields)
    /\ ChunkFields[th[t].k].name = "messages"
    /\ heap' = [heap EXCEPT ![t] = ArrayBytesReader_copy(heap["schema"])]
    /\ th' = [th EXCEPT ![t] = [@ EXCEPT !.reader = reader_copy("schema", t),
                                         !.pc = "set_length"]]
    /\ UNCHANGED codecVars

\* reader.length = int(items[1]), and the reader is yielded.
SetLength(t) ==
    /\ th[t].pc = "set_length"
    /\ heap' = [heap EXCEPT ![th[t].reader].length =
                                ToInt(th[t].items[2].value)]
    /\ th' = [th EXCEPT ![t] = [@ EXCEPT !.pc = "from_bytes"]]
    /\ UNCHANGED codecVars

\* reader.from_bytes(data[offset:]) begins: items = [], and the test
\* `if self.length_prefix or self.length`.
TestLength(t) ==
    /\ th[t].pc = "from_bytes"
    /\ LET self == heap[th[t].reader]
       IN  th' = [th EXCEPT ![t] =
                    [@ EXCEPT !.adata = SliceFrom(th[t].data, th[t].offset),
                              !.aitems = <<>>,
                              !.aoffset = 0,
                              !.pc = IF self.length_prefix \/ self.length # 0
                                     THEN "read_length" ELSE "while"]]
    /\ UNCHANGED <<heap, codecVars>>

\* length, offset = Int32.from_bytes(data), or length = self.length, offset = 0
AfterLength(s, self, r) ==
    IF self.length_prefix
    THEN IF r.ok
         THEN [s EXCEPT !.length = ToInt(r.value.value), !.aoffset = r.offset,
                        !.i = 0, !.pc = "for"]
         ELSE [s EXCEPT !.pc = "raised", !.err = r.err]
    ELSE [s EXCEPT !.length = self.length, !.aoffset = 0, !.i = 0,
                   !.pc = "for"]

ReadLength(t) ==
    /\ th[t].pc = "read_length"
    /\ th' = [th EXCEPT ![t] =
                AfterLength(th[t], heap[th[t].reader],
                            BaseInt_from_bytes("Int32", th[t].adata))]
    /\ UNCHANGED <<heap, codecVars>>

\* The locals s of a thread after a turn of the for loop: r is what
\* self.type.from_bytes(data[offset:]) did.
AfterForItem(s, r) ==
    IF r.ok
    THEN [s EXCEPT !.aitems = ListAppend(@, r.value),
                   !.aoffset = @ + r.offset,
                   !.i = @ + 1]
    ELSE [s EXCEPT !.pc = "raised", !.err = r.err]

\* The same after a turn of the while loop, which goes back to its test.
AfterWhileItem(s, r) ==
    IF r.ok
    THEN [s EXCEPT !.aitems = ListAppend(@, r.value),
                   !.aoffset = @ + r.offset,
                   !.pc = "while"]
    ELSE [s EXCEPT !.pc = "raised", !.err = r.err]

\* One turn of `for _ in range(int(length))`, or its end.
ForLoop(t) ==
    /\ th[t].pc = "for"
    /\ th' = [th EXCEPT ![t] =
                IF th[t].i >= th[t].length
                THEN [@ EXCEPT !.pc = "array_return"]
                ELSE AfterForItem(th[t],
                                  from_bytes(heap[th[t].reader].type,
                                             SliceFrom(th[t].adata,
                                                       th[t].aoffset)))]
    /\ UNCHANGED <<heap, codecVars>>

\* while offset != len(data)
WhileTest(t) ==
    /\ th[t].pc = "while"
    /\ th' = [th EXCEPT ![t] =
                [@ EXCEPT !.pc = IF th[t].aoffset # Len(th[t].adata)
                                 THEN "while_body" ELSE "array_return"]]
    /\ UNCHANGED <<heap, codecVars>>

\* The body of the while loop: one element is decoded and appended.
WhileBody(t) ==
    /\ th[t].pc = "while_body"
    /\ th' = [th EXCEPT ![t] =
                AfterWhileItem(th[t],
                               from_bytes(heap[th[t].reader].type,
                                          SliceFrom(th[t].adata, th[t].aoffset)))]
    /\ UNCHANGED <<heap, codecVars>>

\* return Array(items), offset; AutoBytes.from_bytes appends the item and
\* advances its offset.
ArrayReturn(t) ==
    /\ th[t].pc = "array_return"
    /\ th' = [th EXCEPT ![t] =
                [@ EXCEPT !.items = Append(@, ArrayValue(th[t].aitems)),
                          !.offset = @ + th[t].aoffset,
                          !.k = @ + 1,
                          !.pc = "field"]]
    /\ UNCHANGED <<heap, codecVars>>

\* instance = cls(*items); return instance, offset
Return(t) ==
    /\ th[t].pc = "field"
    /\ th[t].k > Len(ChunkFields)
    /\ th' = [th EXCEPT ![t] = [@ EXCEPT !.pc = "returned"]]
    /\ UNCHANGED <<heap, codecVars>>

\* The caller has the result or the exception; the thread is free again, and
\* the reader it had copied is garbage.
Finish(t) ==
    /\ th[t].pc \in {"returned", "raised"}
    /\ th' = [th EXCEPT ![t] = Idle]
    /\ heap' = [heap EXCEPT ![t] = NoReader]
    /\ UNCHANGED codecVars

\* A step of a decode under way in thread t.
Step(t) ==
    \/ ReadField(t)
    \/ CopyReader(t)
    \/ SetLength(t)
    \/ TestLength(t)
    \/ ReadLength(t)
    \/ ForLoop(t)
    \/ WhileTest(t)
    \/ WhileBody(t)
    \/ ArrayReturn(t)
    \/ Return(t)

\* The steps of the threads in T.
DecodeNext(T) ==
    \/ \E t \in T : \E d \in ThreadBuffers : Call(t, d)
    \/ \E t \in T : ReadField(t)
    \/ \E t \in T : CopyReader(t)
    \/ \E t \in T : SetLength(t)
    \/ \E t \in T : TestLength(t)
    \/ \E t \in T : ReadLength(t)
    \/ \E t \in T : ForLoop(t)
    \/ \E t \in T : WhileTest(t)
    \/ \E t \in T : WhileBody(t)
    \/ \E t \in T : ArrayReturn(t)
    \/ \E t \in T : Return(t)
    \/ \E t \in T : Finish(t)

ThreadNext == DecodeNext(Threads)

SingleNext == DecodeNext({"t1"})

(***************************************************************************)
(* The specifications.                                                     *)
(***************************************************************************)
Init == CodecInit /\ ThreadInit

\* The codec applied to one input.
Spec == Init /\ [][CodecNext]_vars

\* Chunk decodes running concurrently in two threads.
ConcurrentSpec == Init /\ [][ThreadNext]_vars

\* Chunk decodes in one thread.  The interpreter keeps running a thread that
\* is in a decode, so the steps of a decode are weakly fair.
FairSpec == Init /\ [][SingleNext]_vars /\ WF_vars(Step("t1"))

(***************************************************************************)
(* What a buffer holds on the wire, read independently of the decoders.    *)
(***************************************************************************)
\* The num_entries and num_records fields of a chunk buffer.
WireNumEntries(d) == ToInt(struct_unpack("UInt16", Slice(d, 1, 3)))
WireNumRecords(d) == ToInt(struct_unpack("UInt32", Slice(d, 3, 7)))

\* The field of a record class that is read by an ArrayBytesReader.
SequenceField(c) == CHOOSE k \in 1..Len(fields(c)) : fields(c)[k].has_reader

\* The 4-byte count on the wire of the sequence of a record of class c,
\* unsigned: it follows the fields before the sequence, RecordHead(c).
WireCount(c, d) ==
    struct_unpack("UInt32",
                  Slice(d, Len(RecordHead(c)), Len(RecordHead(c)) + 4))

(***************************************************************************)
(* The claims about the codec.                                             *)
(***************************************************************************)
\* C1: for every PublishConfirm record x (any list of UInt64 publishing_ids,
\* the empty list included), PublishConfirm.from_bytes(bytes(x)) returns
\* (y, offset) with y = x and offset = len(bytes(x)).
C1_PublishConfirmRoundTrip ==
    (op = "roundtrip" /\ cls = "PublishConfirm") =>
        /\ res.ok
        /\ res.value = x
        /\ res.offset = Len(data)

\* A PublishConfirm with the longest list, holding 2^64 - 1, came back.
C1_Witness ==
    /\ op = "roundtrip"
    /\ cls = "PublishConfirm"
    /\ Len(x.fields[4].items) = MaxLen
    /\ x.fields[4].items[1].value.mag = <<255, 255, 255, 255, 255, 255, 255, 255>>
    /\ res.ok
    /\ res.offset = 9 + 8 * MaxLen

\* C2: a null String and an empty String are never conflated: bytes(String(None))
\* is FF FF and bytes(String("")) is 00 00; String.from_bytes on FF FF returns
\* the null value having consumed 2 bytes, and on 00 00 the empty string having
\* consumed 2 bytes.
C2_NullAndEmptyDistinct ==
    /\ bytes(StringNone) = <<255, 255>>
    /\ bytes(StringValue(<<>>)) = <<0, 0>>
    /\ (op = "string" /\ data = <<255, 255>>) =>
           (res.ok /\ res.value = StringNone /\ res.offset = 2)
    /\ (op = "string" /\ data = <<0, 0>>) =>
           (res.ok /\ res.value = StringValue(<<>>) /\ res.offset = 2)

C4_FrameLengthExact ==
    op = "frame" =>
        /\ Slice(data, 0, 4) = struct_pack("UInt32", FromInt(Len(bytes(x))))
        /\ SliceFrom(data, 4) = bytes(x)
        /\ res.ok
        /\ res.offset = Len(bytes(x))

\* C5: for every integer class of width w and every buffer of fewer than w
\* bytes, from_bytes fails for want of data (struct.error is the exception the
\* code raises for it), returns no value, and reads nothing past the buffer.
C5_ShortIntegerFails ==
    (op = "int" /\ Len(data) < byte_size(cls)) =>
        /\ ~res.ok
        /\ res.err = StructError
        /\ res.value = NoValue
        /\ read \subseteq 1..Len(data)

\* A 64-bit integer was decoded from 7 bytes.
C5_Witness ==
    /\ op = "int"
    /\ cls = "UInt64"
    /\ Len(data) = 7
    /\ ~res.ok
    /\ read = 1..7

\* C6: opaque bytes decode: for every payload p, decoding bytes(Bytes(p))
\* returns (Bytes(p), 4 + len(p)), and every record with an opaque-bytes field
\* satisfies from_bytes(bytes(x)) = (x, len(bytes(x))).
C6_OpaqueBytesRoundTrip ==
    /\ (op = "roundtrip" /\ cls = "Bytes") =>
           (res.ok /\ res.value = x /\ res.offset = 4 + Len(x.value))
    /\ (op = "roundtrip"
           /\ cls \in {"PublishedMessage", "SaslAuthenticateRequest",
                       "SaslAuthenticateResponse"}) =>
           (res.ok /\ res.value = x /\ res.offset = Len(data))

\* C7: a record decode that returns holds, in its self-prefixed sequence,
\* exactly as many elements as the unsigned 4-byte count on the wire.
C7_NoSilentTruncation ==
    (op = "record" /\ res.ok) =>
        FromInt(Len(res.value.fields[SequenceField(cls)].items))
            = WireCount(cls, data)

\* C8: a chunk with num_records = len(messages) encodes as its header fields
\* followed by the element encodings only, and the chunk decoder consumes
\* all of it.
C8_ChunkEncodesElementsOnly ==
    (/\ op = "roundtrip"
     /\ cls = "OsirisChunk"
     /\ x.fields[3].value = FromInt(Len(x.fields[8].items))) =>
        /\ data = ConcatBytes(SubSeq(x.fields, 1, 7))
                      \o ConcatBytes(x.fields[8].items)
        /\ res.ok
        /\ res.offset = Len(data)

(***************************************************************************)
(* The claims about the chunk decode as it runs.                           *)
(***************************************************************************)
\* C9: every decode terminates: a Deliver.OsirisChunk.from_bytes that has
\* begun eventually returns or raises, for every value of the count fields
\* and every number of bytes after the header.
C9_DecodeTerminates ==
    (th["t1"].pc = "field") ~> (th["t1"].pc \in {"returned", "raised"})

\* C10: decoding never mutates the schema's reader, which keeps
\* length_prefix False and length 0 whatever decodes have run or are running,
\* and each of two concurrent decodes counts with the num_entries of its own
\* buffer: its reader holds that count, its for loop runs to it, and the
\* record it returns holds that many messages.
C10_ReaderNotShared ==
    /\ heap["schema"].length_prefix = FALSE
    /\ heap["schema"].length = 0
    /\ \A t \in Threads :
          /\ th[t].pc \in {"from_bytes", "read_length", "for", "while",
                           "while_body", "array_return"} =>
                 heap[th[t].reader].length = WireNumEntries(th[t].data)
          /\ th[t].pc = "for" => th[t].length = WireNumEntries(th[t].data)
          /\ th[t].pc = "returned" =>
                 Len(th[t].items[FieldIndex("OsirisChunk", "messages")].items)
                     = WireNumEntries(th[t].data)

\* One decode has returned while another, of a buffer with another count, is
\* in the middle of its loop.
C10_Witness ==
    /\ th["t1"].pc = "returned"
    /\ th["t2"].pc = "for"
    /\ th["t2"].i = 1
    /\ WireNumEntries(th["t1"].data) = 1
    /\ WireNumEntries(th["t2"].data) = 2
    /\ Len(th["t1"].items[FieldIndex("OsirisChunk", "messages")].items) = 1

====
